---- MODULE Spec2Model ----
(***************************************************************************)
(* Request orchestration of the creative-generation studio:                *)
(*   - the batch orchestrator of generateStudioImage and                   *)
(*     generateCompositeImage (src/services/geminiService.ts),             *)
(*   - the scene orchestrator of the VideoStoryboard component             *)
(*     (src/unnamed/part_000).                                             *)
(*   - the video poller generateVeoVideo and the analysis and script       *)
(*     operations of src/services/geminiService.ts.                        *)
(* JavaScript runs every handler and every promise continuation to its     *)
(* next pending await without interleaving, so one action is one such run: *)
(* a click handler up to its first pending await, or the settlement of one *)
(* outbound call together with every continuation it wakes.                *)
(***************************************************************************)
EXTENDS Naturals, Sequences, FiniteSets, TLC

VARIABLES
    \* ---- batch orchestrator (generateStudioImage / generateCompositeImage)
    fn,             \* which of the two functions is running ("none" before the call)
    quantity,       \* the quantity argument
    i,              \* the outer loop variable i
    promises,       \* item index -> promise of generateSingle(index)
    generatedUrls,  \* the generatedUrls array
    bpc,            \* "idle" | "await" (at Promise.all) | "returned" | "thrown"
    thrown,         \* message of the Error thrown by the function, NULL if none
    groups,         \* history: the sizes of the groups dispatched so far
    dispatchCount,  \* history: item index -> number of generateContent calls started
    failedItems     \* history: the items whose call threw or answered without image

batchVars == <<fn, quantity, i, promises, generatedUrls, bpc, thrown, groups,
               dispatchCount, failedItems>>

VARIABLES
    \* ---- scene orchestrator (VideoStoryboard component)
    scenes,           \* the scenes state: sequence of [id, image, motionPrompt]
    isGenerating,     \* the isGenerating state
    generatedVideos,  \* the generatedVideos state: sequence of [sceneId, videoUrl, status]
    errorMsg,         \* the errorMsg state
    aistudio,         \* whether window.aistudio exists in this environment
    clock,            \* the last value read from Date.now()
    runs,             \* the invocations of handleGenerate that passed validation:
                      \* sequence of [pc, valid, tasks]
    owner,            \* history: the run whose line 73 last wrote generatedVideos
    clicks            \* history: the number of user events handled so far

storyVars == <<scenes, isGenerating, generatedVideos, errorMsg, aistudio, clock, runs,
               owner, clicks>>

VARIABLES
    \* ---- the service functions of geminiService.ts
    API_KEY,          \* process.env.API_KEY, the active credential
    poll,             \* task of the storyboard run -> its generateVeoVideo invocation:
                      \* [pc, ai, callKey, operation, waits, checks, notDone]
    calls,            \* analysis / script operation -> [pc, text, value]
    creative          \* the generateCreativePrompt call: [pc, pose, modelType,
                      \* analysisData, instruction, result, error]

serviceVars == <<API_KEY, poll, calls, creative>>

vars == <<batchVars, storyVars, serviceVars>>

NULL == "null"

--------------------------------------------------------------------------
(* Bounds and program constants *)

MaxQuantity == 12

\* user events (clicks and uploads) handled by the storyboard component
MaxClicks == 4

\* answers "not done" the backend gives for one video operation
MaxPolls == 2

\* scenes of the storyboard whose video pollers are followed step by step
MaxPollScenes == 2

BATCH_SIZE == 4

--------------------------------------------------------------------------
(* The backend's answers to one generateContent call *)

TextPart == [inlineData |-> NULL, text |-> "caption"]

ImagePart(d) == [inlineData |-> d, text |-> NULL]

\* the image bytes the backend produces for the request of item k (each item
\* sends its own variation prompt, so each answer is told apart by its item)
ImageData(k) == "IMG" \o ToString(k)

\* candidates[0].content.parts of a response to item k; <<>> also stands for a
\* response without candidates (the "|| []" of the code)
ResponseParts(k) ==
    { <<>>,
      <<TextPart>>,
      <<ImagePart(ImageData(k))>>,
      <<TextPart, ImagePart(ImageData(k))>>,
      <<ImagePart(ImageData(k)), ImagePart("EXTRA")>> }

\* what the generateContent call of item k does: it throws, or it returns parts
CallOutcomes(k) ==
    {[threw |-> TRUE, parts |-> <<>>]} \cup
    {[threw |-> FALSE, parts |-> p] : p \in ResponseParts(k)}

DataUrl(d) == "data:image/png;base64," \o d

\* for (const part of parts) { if (part.inlineData) return url } return null
RECURSIVE FirstInlineData(_)
FirstInlineData(parts) ==
    IF parts = <<>> THEN NULL
    ELSE IF Head(parts).inlineData # NULL THEN DataUrl(Head(parts).inlineData)
    ELSE FirstInlineData(Tail(parts))

Fulfilled(v) == [st |-> "fulfilled", val |-> v]
Rejected(e) == [st |-> "rejected", val |-> e]

\* generateSingle without its try/catch: a throw rejects the item's promise
generateSingleNoCatch(outcome) ==
    IF outcome.threw THEN Rejected("backend error")
    ELSE Fulfilled(FirstInlineData(outcome.parts))

\* generateSingle / generateSingleVariation after its call has settled: the
\* try/catch turns a throw into null, so its promise is always fulfilled
generateSingle(outcome) ==
    IF outcome.threw THEN Fulfilled(NULL) ELSE Fulfilled(FirstInlineData(outcome.parts))

\* the backend's answer holds no image: the per-item failure
ItemFails(outcome) ==
    outcome.threw \/ \A n \in 1 .. Len(outcome.parts) : outcome.parts[n].inlineData = NULL

--------------------------------------------------------------------------
(* Batch orchestrator *)

Pending == [st |-> "pending", val |-> NULL]
InFlight == [st |-> "inflight", val |-> NULL]

\* the inner loop without its j < BATCH_SIZE bound
GroupIndicesUncapped(start, q) == {k \in 0 .. (q - 1) : k >= start}

\* the indices i + j pushed by the inner loop: j < BATCH_SIZE && i + j < quantity
GroupIndices(start, q) == {k \in 0 .. (q - 1) : k >= start /\ k < start + BATCH_SIZE}

\* Promise.race / Promise.any in place of Promise.all
AnySettled(ps, start, q) == \E k \in GroupIndices(start, q) : ps[k].st = "fulfilled"

\* Promise.all(batchPromises) is fulfilled once every promise of the group is
AllSettled(ps, start, q) == \A k \in GroupIndices(start, q) : ps[k].st = "fulfilled"

\* batchResults: the group's values in index order
RECURSIVE batchResults(_, _, _)
batchResults(ps, start, n) ==
    IF n = 0 THEN <<>>
    ELSE <<ps[start].val>> \o batchResults(ps, start + 1, n - 1)

\* the forEach without its "if (res)"
RECURSIVE PushResultsUnfiltered(_, _)
PushResultsUnfiltered(urls, results) ==
    IF results = <<>> THEN urls
    ELSE PushResultsUnfiltered(Append(urls, Head(results)), Tail(results))

\* batchResults.forEach(res => { if (res) generatedUrls.push(res) })
RECURSIVE PushResults(_, _)
PushResults(urls, results) ==
    IF results = <<>> THEN urls
    ELSE PushResults(IF Head(results) # NULL THEN Append(urls, Head(results)) ELSE urls,
                     Tail(results))

\* one pass of the inner loop: every call of the group is started
DispatchGroup(ps, start, q) ==
    [k \in DOMAIN ps |-> IF k \in GroupIndices(start, q) THEN InFlight ELSE ps[k]]

CountDispatch(dc, start, q) ==
    [k \in DOMAIN dc |-> IF k \in GroupIndices(start, q) THEN dc[k] + 1 ELSE dc[k]]

\* the function without its final length check
NeverNone(urls) == FALSE

\* if (generatedUrls.length === 0) throw
NoneGenerated(urls) == Len(urls) = 0

ErrorMessage(f) ==
    IF f = "studio" THEN "No image generated" ELSE "No composite images generated"

BatchInit ==
    /\ fn = "none"
    /\ quantity = 0
    /\ i = 0
    /\ promises = <<>>
    /\ generatedUrls = <<>>
    /\ bpc = "idle"
    /\ thrown = NULL
    /\ groups = <<>>
    /\ dispatchCount = <<>>
    /\ failedItems = {}

\* the call of generateStudioImage / generateCompositeImage, up to its first
\* await: the first group is dispatched
Invoke(f, q) ==
    /\ bpc = "idle"
    /\ fn' = f
    /\ quantity' = q
    /\ i' = 0
    /\ generatedUrls' = <<>>
    /\ promises' = DispatchGroup([k \in 0 .. (q - 1) |-> Pending], 0, q)
    /\ dispatchCount' = CountDispatch([k \in 0 .. (q - 1) |-> 0], 0, q)
    /\ groups' = <<Cardinality(GroupIndices(0, q))>>
    /\ bpc' = "await"
    /\ thrown' = NULL
    /\ failedItems' = {}
    /\ UNCHANGED <<storyVars, serviceVars>>

\* the continuation after Promise.all: collect, advance i, then the next
\* group or the end of the function
AfterGroup(ps) ==
    LET n    == Cardinality(GroupIndices(i, quantity))
        urls == PushResults(generatedUrls, batchResults(ps, i, n))
        next == i + BATCH_SIZE
    IN  /\ generatedUrls' = urls
        /\ i' = next
        /\ IF next < quantity
           THEN /\ promises' = DispatchGroup(ps, next, quantity)
                /\ dispatchCount' = CountDispatch(dispatchCount, next, quantity)
                /\ groups' = Append(groups, Cardinality(GroupIndices(next, quantity)))
                /\ bpc' = "await"
                /\ thrown' = NULL
           ELSE /\ promises' = ps
                /\ UNCHANGED <<groups, dispatchCount>>
                /\ IF NoneGenerated(urls)
                   THEN bpc' = "thrown" /\ thrown' = ErrorMessage(fn)
                   ELSE bpc' = "returned" /\ thrown' = NULL

\* one generateContent call settles. A rejected item promise would reject
\* Promise.all and end the function with that error; when the last promise of
\* the group is fulfilled the function resumes after Promise.all
Settle(k, outcome) ==
    /\ k \in DOMAIN promises
    /\ promises[k].st = "inflight"
    /\ failedItems' = IF ItemFails(outcome) THEN failedItems \cup {k} ELSE failedItems
    /\ LET ps == [promises EXCEPT ![k] = generateSingle(outcome)]
       IN  IF bpc = "await" /\ ps[k].st = "rejected"
           THEN /\ promises' = ps
                /\ bpc' = "thrown"
                /\ thrown' = ps[k].val
                /\ UNCHANGED <<generatedUrls, i, groups, dispatchCount>>
           ELSE IF bpc = "await" /\ AllSettled(ps, i, quantity)
           THEN AfterGroup(ps)
           ELSE /\ promises' = ps
                /\ UNCHANGED <<generatedUrls, i, groups, dispatchCount, bpc, thrown>>
    /\ UNCHANGED <<fn, quantity>>
    /\ UNCHANGED <<storyVars, serviceVars>>

BatchNext ==
    \/ \E f \in {"studio", "composite"}, q \in 1 .. MaxQuantity : Invoke(f, q)
    \/ \E k \in 0 .. (MaxQuantity - 1) : \E outcome \in CallOutcomes(k) : Settle(k, outcome)

--------------------------------------------------------------------------
(* Scene orchestrator: the VideoStoryboard component *)

MAX_SCENES == 5

\* an abstract reading of Date.now() at the time the component is mounted
ClockStart == 1000

NoImage == NULL

\* the assets a user can upload into a scene
Assets == {"imgA"}

KEY_ERROR == "Requested entity was not found"
KEY_MESSAGE == "API Key invalid or not selected properly. Please try again."
GLOBAL_MESSAGE == "An unexpected error occurred during generation."

\* the credentials the host environment may put into process.env.API_KEY
Keys == <<"K1", "K2">>

\* String.prototype.includes
Includes(str, needle) ==
    \E n \in 1 .. Len(str) :
        n + Len(needle) - 1 <= Len(str) /\ SubSeq(str, n, n + Len(needle) - 1) = needle

\* the artifact uris of finished video operations
BackendUris == {"https://video/X"}

\* what one generateVeoVideo call does: the finished operation carries a
\* video uri or none, or a call of it throws an Error with a message
VeoOutcomes ==
    {[threw |-> FALSE, uri |-> u, message |-> NULL] : u \in {NULL} \cup BackendUris} \cup
    {[threw |-> TRUE, uri |-> NULL, message |-> m] :
        m \in {"404: Requested entity was not found.", "503: overloaded"}}

\* a poller that hands the uri of the operation through
generateVeoVideoBare(uri) ==
    IF uri = NULL \/ uri = "" THEN NULL ELSE uri

\* generateVeoVideo's return value: if (!videoUri) return null; else uri&key=KEY
generateVeoVideo(uri) ==
    IF uri = NULL \/ uri = "" THEN NULL ELSE uri \o "&key=" \o API_KEY

\* handleGenerate without its filter
AllScenes(ss) == ss

\* scenes.filter(s => s.image !== null)
validScenes(ss) == SelectSeq(ss, LAMBDA sc : sc.image # NoImage)

\* validScenes.map(s => ({ sceneId: s.id, videoUrl: '', status: 'generating' }))
InitialEntries(vs) ==
    [n \in 1 .. Len(vs) |-> [sceneId |-> vs[n].id, videoUrl |-> "", status |-> "generating"]]

\* an update that takes every return of the call for a video
CompleteEntryUnchecked(prev, id, videoUrl) ==
    [n \in DOMAIN prev |->
        IF prev[n].sceneId = id
        THEN [prev[n] EXCEPT !.videoUrl = IF videoUrl = NULL THEN "" ELSE videoUrl,
                             !.status = "completed"]
        ELSE prev[n]]

\* prev.map(v => v.sceneId === scene.id
\*     ? { ...v, videoUrl: videoUrl || '', status: videoUrl ? 'completed' : 'failed' } : v)
CompleteEntry(prev, id, videoUrl) ==
    [n \in DOMAIN prev |->
        IF prev[n].sceneId = id
        THEN [prev[n] EXCEPT !.videoUrl = IF videoUrl = NULL THEN "" ELSE videoUrl,
                             !.status = IF videoUrl = NULL \/ videoUrl = ""
                                        THEN "failed" ELSE "completed"]
        ELSE prev[n]]

\* prev.map(v => v.sceneId === scene.id ? { ...v, status: 'failed' } : v)
FailEntry(prev, id) ==
    [n \in DOMAIN prev |->
        IF prev[n].sceneId = id THEN [prev[n] EXCEPT !.status = "failed"] ELSE prev[n]]

\* a run that reads the scenes state again after its key check
LiveScenes(run) == SelectSeq(scenes, LAMBDA sc : sc.image # NoImage)

\* the scenes a run dispatches once its key check is over: the validScenes
\* captured by the closure at the click
DispatchedScenes(run) == run.valid

\* a storyboard dispatch capped by the window of the batch orchestrator
InitialTasksWindowed(vs) ==
    [n \in 1 .. Len(vs) |-> IF vs[n].image = NoImage THEN "fulfilled"
                            ELSE IF n <= BATCH_SIZE THEN "veo" ELSE "queued"]

\* the promises created by validScenes.map(async (scene) => ...): a scene
\* without image returns at once, the others are at their generateVeoVideo call
InitialTasks(vs) ==
    [n \in 1 .. Len(vs) |-> IF vs[n].image = NoImage THEN "fulfilled" ELSE "veo"]

\* an invocation that has ended and has no call or re-prompt pending any more:
\* nothing of it remains that could run
Ended == [pc |-> "done", valid |-> <<>>, tasks |-> <<>>]

Retire(run) ==
    IF run.pc = "done" /\ \A n \in DOMAIN run.tasks : run.tasks[n] \in {"fulfilled", "rejected"}
    THEN Ended ELSE run

\* Promise.all(promises) is fulfilled: every task has returned
AllFulfilled(run) == \A n \in DOMAIN run.tasks : run.tasks[n] = "fulfilled"

StoryInit ==
    /\ scenes = <<[id |-> "1", image |-> NoImage, motionPrompt |-> ""]>>
    /\ isGenerating = FALSE
    /\ generatedVideos = <<>>
    /\ errorMsg = NULL
    /\ aistudio \in BOOLEAN
    /\ clock = ClockStart
    /\ runs = <<>>
    /\ owner = 0
    /\ clicks = 0

\* the analysis and script operations of the service
Ops == {"analyzeProductDetails", "generateVideoScript", "generateBulkVariations:photo",
        "generateBulkVariations:video"}

\* analysisData: null, or the object analyzeProductDetails returned; the
\* object has a productCategory (hasCategory) or, as the {} parsed from an
\* empty response, has none
NoAnalysis ==
    [present |-> FALSE, hasCategory |-> FALSE, productCategory |-> "", targetGender |-> ""]

\* the interpolated fields of systemInstruction before the function builds it
NoInstruction == [category |-> "", modelType |-> "", action |-> ""]

ServiceInit ==
    /\ creative = [pc |-> "idle", pose |-> "", modelType |-> "", analysisData |-> NoAnalysis,
                   instruction |-> NoInstruction, result |-> "", error |-> NULL]
    /\ API_KEY = Keys[1]
    /\ poll = <<>>
    /\ calls = [op \in Ops |-> [pc |-> "idle", text |-> NULL,
                                 value |-> [kind |-> "none", members |-> <<>>, items |-> <<>>]]]

Init == BatchInit /\ StoryInit /\ ServiceInit

\* the component handles one more user event
UserEvent == clicks < MaxClicks /\ clicks' = clicks + 1

\* the ids of the scene cards on screen
PresentIds == {scenes[n].id : n \in DOMAIN scenes}

\* an id that no scene has
AbsentId == "0"

\* addScene, clicked when Date.now() has advanced by `elapsed` since its last reading
addScene(elapsed) ==
    /\ UserEvent
    /\ clock' = clock + elapsed
    /\ IF Len(scenes) >= MAX_SCENES
       THEN scenes' = scenes
       ELSE scenes' = Append(scenes, [id |-> ToString(clock'), image |-> NoImage,
                                      motionPrompt |-> ""])
    /\ UNCHANGED <<isGenerating, generatedVideos, errorMsg, aistudio, runs, owner>>
    /\ UNCHANGED <<batchVars, API_KEY, calls, creative>>

removeScene(id) ==
    /\ UserEvent
    /\ IF Len(scenes) <= 1
       THEN scenes' = scenes
       ELSE scenes' = SelectSeq(scenes, LAMBDA sc : sc.id # id)
    /\ UNCHANGED <<isGenerating, generatedVideos, errorMsg, aistudio, clock, runs, owner>>
    /\ UNCHANGED <<batchVars, API_KEY, calls, creative>>

updateScene(id, field, value) ==
    /\ UserEvent
    /\ scenes' = [n \in DOMAIN scenes |->
                    IF scenes[n].id = id
                    THEN IF field = "image"
                         THEN [scenes[n] EXCEPT !.image = value]
                         ELSE [scenes[n] EXCEPT !.motionPrompt = value]
                    ELSE scenes[n]]
    /\ UNCHANGED <<isGenerating, generatedVideos, errorMsg, aistudio, clock, runs, owner>>
    /\ UNCHANGED <<batchVars, API_KEY, calls, creative>>

\* lines 72-113 up to the await of Promise.all, and lines 118-120 when every
\* task has returned already: run r starts
StartRun(rs, r) ==
    LET vs      == DispatchedScenes(rs[r])
        started == [rs[r] EXCEPT !.pc = "awaitAll", !.tasks = InitialTasks(vs)]
    IN  /\ generatedVideos' = InitialEntries(vs)
        /\ owner' = r
        /\ IF AllFulfilled(started)
           THEN /\ runs' = [rs EXCEPT ![r] = Retire([started EXCEPT !.pc = "done"])]
                /\ isGenerating' = FALSE
           ELSE /\ runs' = [rs EXCEPT ![r] = started]
                /\ isGenerating' = TRUE

\* a click on Generate: handleGenerate up to its first pending await
handleGenerate ==
    /\ ~isGenerating
    /\ UserEvent
    /\ errorMsg' = NULL
    /\ LET vs == validScenes(scenes)
           r  == Len(runs) + 1
       IN  IF Len(vs) = 0
           THEN UNCHANGED <<isGenerating, generatedVideos, runs, owner>>
           ELSE IF aistudio
                THEN /\ runs' = Append(runs, [pc |-> "hasKey", valid |-> vs, tasks |-> <<>>])
                     /\ UNCHANGED <<isGenerating, generatedVideos, owner>>
                ELSE StartRun(Append(runs, [pc |-> "hasKey", valid |-> vs, tasks |-> <<>>]), r)
    /\ UNCHANGED <<scenes, aistudio, clock>>
    /\ UNCHANGED <<batchVars, API_KEY, calls, creative>>

\* checkApiKey: aistudio.hasSelectedApiKey() settles for run r
hasSelectedApiKey(r, answer) ==
    /\ r \in DOMAIN runs
    /\ runs[r].pc = "hasKey"
    /\ IF answer = "yes"
       THEN StartRun(runs, r) /\ UNCHANGED errorMsg
       ELSE /\ runs' = [runs EXCEPT ![r] = IF answer = "no"
                                          THEN [@ EXCEPT !.pc = "openKey"]
                                          ELSE Retire([@ EXCEPT !.pc = "done"])]
            /\ UNCHANGED <<isGenerating, generatedVideos, errorMsg, owner>>
    /\ UNCHANGED <<scenes, aistudio, clock, clicks>>
    /\ UNCHANGED <<batchVars, API_KEY, calls, creative>>

\* checkApiKey: the aistudio.openSelectKey() of line 46 settles for run r
openSelectKey(r, resolved) ==
    /\ r \in DOMAIN runs
    /\ runs[r].pc = "openKey"
    /\ IF resolved
       THEN StartRun(runs, r) /\ UNCHANGED errorMsg
       ELSE /\ runs' = [runs EXCEPT ![r] = Retire([@ EXCEPT !.pc = "done"])]
            /\ UNCHANGED <<isGenerating, generatedVideos, errorMsg, owner>>
    /\ UNCHANGED <<scenes, aistudio, clock, clicks>>
    /\ UNCHANGED <<batchVars, API_KEY, calls, creative>>

\* task n of run r has returned: Promise.all may be fulfilled, then the
\* finally block runs
TaskReturns(r, n) ==
    LET rs == [runs EXCEPT ![r].tasks[n] = "fulfilled"]
    IN  IF rs[r].pc = "awaitAll" /\ AllFulfilled(rs[r])
        THEN /\ runs' = [rs EXCEPT ![r] = Retire([@ EXCEPT !.pc = "done"])]
             /\ isGenerating' = FALSE
        ELSE /\ runs' = [rs EXCEPT ![r] = Retire(@)]
             /\ UNCHANGED isGenerating

\* the generateVeoVideo call of task n of run r settles
veoSettles(r, n, outcome) ==
    /\ r \in DOMAIN runs
    /\ n \in DOMAIN runs[r].tasks
    /\ runs[r].tasks[n] = "veo"
    /\ LET id == runs[r].valid[n].id
       IN  IF ~outcome.threw
           THEN /\ generatedVideos' =
                       CompleteEntry(generatedVideos, id, generateVeoVideo(outcome.uri))
                /\ TaskReturns(r, n)
                /\ UNCHANGED errorMsg
           ELSE IF Includes(outcome.message, KEY_ERROR)
           THEN /\ errorMsg' = KEY_MESSAGE
                /\ IF aistudio
                   THEN /\ runs' = [runs EXCEPT ![r].tasks[n] = "reprompt"]
                        /\ UNCHANGED <<generatedVideos, isGenerating>>
                   ELSE /\ generatedVideos' = FailEntry(generatedVideos, id)
                        /\ TaskReturns(r, n)
           ELSE /\ generatedVideos' = FailEntry(generatedVideos, id)
                /\ TaskReturns(r, n)
                /\ UNCHANGED errorMsg
    /\ UNCHANGED <<scenes, aistudio, clock, owner, clicks>>
    /\ UNCHANGED <<batchVars, API_KEY, calls, creative>>

\* the aistudio.openSelectKey() of line 104 settles for task n of run r; its
\* rejection rejects the task, and Promise.all with it if still pending
repromptSettles(r, n, resolved) ==
    /\ r \in DOMAIN runs
    /\ n \in DOMAIN runs[r].tasks
    /\ runs[r].tasks[n] = "reprompt"
    /\ IF resolved
       THEN /\ generatedVideos' = FailEntry(generatedVideos, runs[r].valid[n].id)
            /\ TaskReturns(r, n)
            /\ UNCHANGED errorMsg
       ELSE /\ UNCHANGED generatedVideos
            /\ IF runs[r].pc = "awaitAll"
               THEN /\ runs' = [runs EXCEPT ![r] =
                                    Retire([@ EXCEPT !.tasks[n] = "rejected", !.pc = "done"])]
                    /\ errorMsg' = GLOBAL_MESSAGE
                    /\ isGenerating' = FALSE
               ELSE /\ runs' = [runs EXCEPT ![r] = Retire([@ EXCEPT !.tasks[n] = "rejected"])]
                    /\ UNCHANGED <<errorMsg, isGenerating>>
    /\ UNCHANGED <<scenes, aistudio, clock, owner, clicks>>
    /\ UNCHANGED <<batchVars, API_KEY, calls, creative>>

\* the whole generateVeoVideo call of a task is one step here (veoSettles):
\* its poller is not looked into
StoryNext ==
    \/ \E elapsed \in 0 .. 1 : addScene(elapsed) /\ UNCHANGED poll
    \/ \E id \in PresentIds \cup {AbsentId} : removeScene(id) /\ UNCHANGED poll
    \/ \E id \in PresentIds, value \in Assets \cup {NoImage} :
           updateScene(id, "image", value) /\ UNCHANGED poll
    \/ handleGenerate /\ UNCHANGED poll
    \/ \E r \in DOMAIN runs, answer \in {"yes", "no", "throw"} :
           hasSelectedApiKey(r, answer) /\ UNCHANGED poll
    \/ \E r \in DOMAIN runs, resolved \in BOOLEAN : openSelectKey(r, resolved) /\ UNCHANGED poll
    \/ \E r \in DOMAIN runs, n \in 1 .. MAX_SCENES, outcome \in VeoOutcomes :
           veoSettles(r, n, outcome) /\ UNCHANGED poll
    \/ \E r \in DOMAIN runs, n \in 1 .. MAX_SCENES, resolved \in BOOLEAN :
           repromptSettles(r, n, resolved) /\ UNCHANGED poll

StorySpec == Init /\ [][StoryNext]_vars

\* the scenes that have an image, in scene order
RECURSIVE WithImage(_)
WithImage(ss) ==
    IF ss = <<>> THEN <<>>
    ELSE (IF Head(ss).image = NoImage THEN <<>> ELSE <<Head(ss)>>) \o WithImage(Tail(ss))

\* the scene with index n of a storyboard built by addScene: the initial
\* scene '1', then one scene per later reading of the clock
PreparedScene(n, image) ==
    [id |-> IF n = 1 THEN "1" ELSE ToString(ClockStart + n - 1), image |-> image,
     motionPrompt |-> ""]

\* the storyboards the user can have prepared with addScene and uploads
Storyboards ==
    UNION {{[n \in 1 .. len |-> PreparedScene(n, images[n])] :
               images \in [1 .. len -> Assets \cup {NoImage}]} : len \in 1 .. MAX_SCENES}

\* a prepared storyboard is on screen and one user event remains: the click
\* on Generate
FanOutInit ==
    /\ BatchInit
    /\ ServiceInit
    /\ scenes \in Storyboards
    /\ isGenerating = FALSE
    /\ generatedVideos = <<>>
    /\ errorMsg = NULL
    /\ aistudio \in BOOLEAN
    /\ clock = ClockStart + Len(scenes) - 1
    /\ runs = <<>>
    /\ owner = 0
    /\ clicks = MaxClicks - 1

FanOutNext ==
    \/ handleGenerate /\ UNCHANGED poll
    \/ \E r \in DOMAIN runs, answer \in {"yes", "no", "throw"} :
           hasSelectedApiKey(r, answer) /\ UNCHANGED poll
    \/ \E r \in DOMAIN runs, resolved \in BOOLEAN : openSelectKey(r, resolved) /\ UNCHANGED poll
    \/ \E r \in DOMAIN runs, n \in 1 .. MAX_SCENES, outcome \in VeoOutcomes :
           veoSettles(r, n, outcome) /\ UNCHANGED poll
    \/ \E r \in DOMAIN runs, n \in 1 .. MAX_SCENES, resolved \in BOOLEAN :
           repromptSettles(r, n, resolved) /\ UNCHANGED poll

FanOutSpec == FanOutInit /\ [][FanOutNext]_vars

--------------------------------------------------------------------------
(* The video poller: generateVeoVideo, followed call by call *)

\* the operation variable before the first answer
NoOperation == [done |-> FALSE, uri |-> NULL]

\* what ai.models.generateVideos and ai.operations.getVideosOperation answer:
\* an operation that is not done, one that is done with or without
\* response.generatedVideos[0].video.uri, or the call throws
BackendAnswers ==
    {[threw |-> FALSE, operation |-> [done |-> FALSE, uri |-> NULL], message |-> NULL]} \cup
    {[threw |-> FALSE, operation |-> [done |-> TRUE, uri |-> u], message |-> NULL] :
        u \in {NULL} \cup BackendUris} \cup
    {[threw |-> TRUE, operation |-> NoOperation, message |-> m] :
        m \in {"404: Requested entity was not found.", "503: overloaded"}}

\* a loop that tests its condition after the body
LoopContinuesAlways(operation) == TRUE

\* while (!operation.done)
LoopContinues(operation) == ~operation.done

\* generateVeoVideo returns: the finished operation as seen by the caller
VeoReturn(operation) == [threw |-> FALSE, uri |-> operation.uri, message |-> NULL]

\* generateVeoVideo rethrows the error of a call
VeoThrow(message) == [threw |-> TRUE, uri |-> NULL, message |-> message]

\* generateVeoVideo up to its first await: getAI() reads the active
\* credential and generateVideos goes out with it
NewPoll ==
    [pc |-> "submit", ai |-> API_KEY, callKey |-> API_KEY, operation |-> NoOperation,
     waits |-> 0, checks |-> 0, notDone |-> 0]

\* the invocations of generateVeoVideo made by the tasks of a run that
\* starts in this step
PollStart ==
    poll' = IF owner' # owner THEN [n \in DOMAIN generatedVideos' |-> NewPoll] ELSE poll

\* the generateVeoVideo invocation of task n of run r receives the answer to
\* its outstanding call: it rethrows, enters the loop body (the wait is
\* started), or leaves the loop and returns to the caller's lines 89-111
Observe(r, n, answer) ==
    /\ r \in DOMAIN runs
    /\ n \in DOMAIN runs[r].tasks
    /\ n \in DOMAIN poll
    /\ runs[r].tasks[n] = "veo"
    /\ (~answer.threw /\ ~answer.operation.done) => poll[n].notDone < MaxPolls
    /\ IF answer.threw
       THEN /\ poll' = [poll EXCEPT ![n].pc = "thrown"]
            /\ veoSettles(r, n, VeoThrow(answer.message))
       ELSE LET seen == [poll[n] EXCEPT
                            !.operation = answer.operation,
                            !.notDone = IF answer.operation.done THEN @ ELSE @ + 1]
            IN  IF LoopContinues(answer.operation)
                THEN /\ poll' = [poll EXCEPT ![n] =
                                     [seen EXCEPT !.pc = "wait", !.waits = @ + 1]]
                     /\ UNCHANGED <<storyVars, batchVars, API_KEY, calls, creative>>
                ELSE /\ poll' = [poll EXCEPT ![n] = [seen EXCEPT !.pc = "returned"]]
                     /\ veoSettles(r, n, VeoReturn(answer.operation))

\* await ai.models.generateVideos(...) settles
generateVideosSettles(r, n, answer) ==
    /\ n \in DOMAIN poll
    /\ poll[n].pc = "submit"
    /\ Observe(r, n, answer)

\* the 5 second timer of line 270 fires: getVideosOperation goes out through
\* the ai instance created at line 250
timerFires(r, n) ==
    /\ r \in DOMAIN runs
    /\ n \in DOMAIN runs[r].tasks
    /\ n \in DOMAIN poll
    /\ runs[r].tasks[n] = "veo"
    /\ poll[n].pc = "wait"
    /\ poll' = [poll EXCEPT ![n] = [@ EXCEPT !.pc = "check", !.checks = @ + 1,
                                              !.callKey = poll[n].ai]]
    /\ UNCHANGED <<storyVars, batchVars, API_KEY, calls, creative>>

\* await ai.operations.getVideosOperation(...) settles
getVideosOperationSettles(r, n, answer) ==
    /\ n \in DOMAIN poll
    /\ poll[n].pc = "check"
    /\ Observe(r, n, answer)

\* the host environment replaces process.env.API_KEY by the next credential
rotateKey ==
    /\ \E k \in 1 .. (Len(Keys) - 1) : API_KEY = Keys[k] /\ API_KEY' = Keys[k + 1]
    /\ UNCHANGED <<storyVars, batchVars, poll, calls, creative>>

\* a prepared storyboard in which every scene has its image
PollInit ==
    /\ BatchInit
    /\ ServiceInit
    /\ scenes \in {sb \in Storyboards : Len(sb) <= MaxPollScenes /\ WithImage(sb) = sb}
    /\ isGenerating = FALSE
    /\ generatedVideos = <<>>
    /\ errorMsg = NULL
    /\ aistudio \in BOOLEAN
    /\ clock = ClockStart + Len(scenes) - 1
    /\ runs = <<>>
    /\ owner = 0
    /\ clicks = MaxClicks - 1

PollNext ==
    \/ handleGenerate /\ PollStart
    \/ \E r \in DOMAIN runs, answer \in {"yes", "no", "throw"} :
           hasSelectedApiKey(r, answer) /\ PollStart
    \/ \E r \in DOMAIN runs, resolved \in BOOLEAN : openSelectKey(r, resolved) /\ PollStart
    \/ \E r \in DOMAIN runs, n \in 1 .. MAX_SCENES, answer \in BackendAnswers :
           generateVideosSettles(r, n, answer)
    \/ \E r \in DOMAIN runs, n \in 1 .. MAX_SCENES : timerFires(r, n)
    \/ \E r \in DOMAIN runs, n \in 1 .. MAX_SCENES, answer \in BackendAnswers :
           getVideosOperationSettles(r, n, answer)
    \/ \E r \in DOMAIN runs, n \in 1 .. MAX_SCENES, resolved \in BOOLEAN :
           repromptSettles(r, n, resolved) /\ UNCHANGED poll
    \/ rotateKey

PollSpec == PollInit /\ [][PollNext]_vars

\* every pending answer, timer and prompt eventually arrives; the backend
\* answers "not done" at most MaxPolls times for one operation
PollFairSpec == PollSpec /\ WF_vars(PollNext)

--------------------------------------------------------------------------
(* The analysis and script operations: what they do with response.text *)

\* JSON values: an object is its list of members, an array its list of items
Obj(members) == [kind |-> "object", members |-> members, items |-> <<>>]

Arr(items) == [kind |-> "array", members |-> <<>>, items |-> items]

NoValue == [kind |-> "none", members |-> <<>>, items |-> <<>>]

\* response texts that are JSON
JsonTexts ==
    {"{}", "[]",
     "{\"description\":\"Red sneaker\",\"usp\":\"Light\",\"productCategory\":\"Footwear\",\"targetGender\":\"Unisex\"}",
     "[{\"sceneNumber\":1,\"voiceOver\":\"Halo\"}]",
     "[{\"variationId\":1,\"prompt\":\"@img1 di meja\"}]"}

\* response texts that are not JSON
BrokenTexts ==
    {"Sorry, I cannot analyze this image.",
     "{\"description\":\"Red sneaker\",\"usp\":",
     "Here is the JSON: []"}

\* response.text: undefined, empty, JSON or not JSON
ResponseTexts == {NULL, ""} \cup JsonTexts \cup BrokenTexts

\* JSON.parse on the texts above: the value, or a SyntaxError
JSONparse(text) ==
    CASE text = "{}" -> [threw |-> FALSE, value |-> Obj(<<>>)]
      [] text = "[]" -> [threw |-> FALSE, value |-> Arr(<<>>)]
      [] text = "{\"description\":\"Red sneaker\",\"usp\":\"Light\",\"productCategory\":\"Footwear\",\"targetGender\":\"Unisex\"}" ->
            [threw |-> FALSE,
             value |-> Obj(<< <<"description", "Red sneaker">>, <<"usp", "Light">>,
                              <<"productCategory", "Footwear">>,
                              <<"targetGender", "Unisex">> >>)]
      [] text = "[{\"sceneNumber\":1,\"voiceOver\":\"Halo\"}]" ->
            [threw |-> FALSE,
             value |-> Arr(<< Obj(<< <<"sceneNumber", "1">>, <<"voiceOver", "Halo">> >>) >>)]
      [] text = "[{\"variationId\":1,\"prompt\":\"@img1 di meja\"}]" ->
            [threw |-> FALSE,
             value |-> Arr(<< Obj(<< <<"variationId", "1">>,
                                     <<"prompt", "@img1 di meja">> >>) >>)]
      [] OTHER -> [threw |-> TRUE, value |-> NoValue]

\* response.text || fallbackText
OrDefault(text, fallbackText) == IF text = NULL \/ text = "" THEN fallbackText ELSE text

\* the record returned by the catch block of analyzeProductDetails
ANALYSIS_FALLBACK ==
    Obj(<< <<"description", "Analysis failed">>, <<"usp", "High Quality">>,
           <<"productCategory", "General">>, <<"targetGender", "Unisex">> >>)

Returned(value) == [pc |-> "returned", value |-> value]

Threw(name) == [pc |-> "thrown", value |-> [NoValue EXCEPT !.kind = name]]

\* try { return JSON.parse(response.text || "{}") } catch { return fallback }
analyzeProductDetails(text) ==
    LET parsed == JSONparse(OrDefault(text, "{}"))
    IN  IF parsed.threw THEN Returned(ANALYSIS_FALLBACK) ELSE Returned(parsed.value)

\* try { return JSON.parse(response.text || "[]") } catch { return [] }
generateVideoScript(text) ==
    LET parsed == JSONparse(OrDefault(text, "[]"))
    IN  IF parsed.threw THEN Returned(Arr(<<>>)) ELSE Returned(parsed.value)

\* return JSON.parse(response.text || "[]"), in the photo and in the video branch
generateBulkVariations(mode, text) ==
    LET parsed == JSONparse(OrDefault(text, "[]"))
    IN  IF parsed.threw THEN Threw("SyntaxError") ELSE Returned(parsed.value)

\* what operation op makes of the text of its response
Outcome(op, text) ==
    CASE op = "analyzeProductDetails" -> analyzeProductDetails(text)
      [] op = "generateVideoScript" -> generateVideoScript(text)
      [] op = "generateBulkVariations:photo" -> generateBulkVariations("photo", text)
      [] op = "generateBulkVariations:video" -> generateBulkVariations("video", text)

\* the operation is called: getAI() and ai.models.generateContent go out
callOperation(op) ==
    /\ calls[op].pc = "idle"
    /\ calls' = [calls EXCEPT ![op].pc = "awaiting"]
    /\ UNCHANGED <<batchVars, storyVars, API_KEY, poll, creative>>

\* generateContent answers with a response whose text is `text`
responseArrives(op, text) ==
    /\ calls[op].pc = "awaiting"
    /\ calls' = [calls EXCEPT ![op] = [pc |-> Outcome(op, text).pc, text |-> text,
                                       value |-> Outcome(op, text).value]]
    /\ UNCHANGED <<batchVars, storyVars, API_KEY, poll, creative>>

\* generateContent throws: no operation catches that
callThrows(op) ==
    /\ calls[op].pc = "awaiting"
    /\ calls' = [calls EXCEPT ![op] = [pc |-> "thrown", text |-> NULL,
                                       value |-> Threw("ApiError").value]]
    /\ UNCHANGED <<batchVars, storyVars, API_KEY, poll, creative>>

ParseNext ==
    \/ \E op \in Ops : callOperation(op)
    \/ \E op \in Ops, text \in ResponseTexts : responseArrives(op, text)
    \/ \E op \in Ops : callThrows(op)

ParseSpec == Init /\ [][ParseNext]_vars

\* the scene list alone: a prepared storyboard is edited further
EditInit ==
    /\ BatchInit
    /\ ServiceInit
    /\ scenes \in Storyboards
    /\ isGenerating = FALSE
    /\ generatedVideos = <<>>
    /\ errorMsg = NULL
    /\ aistudio \in BOOLEAN
    /\ clock = ClockStart + Len(scenes) - 1
    /\ runs = <<>>
    /\ owner = 0
    /\ clicks = MaxClicks - 2

EditNext ==
    \/ \E elapsed \in 0 .. 1 : addScene(elapsed) /\ UNCHANGED poll
    \/ \E id \in PresentIds \cup {AbsentId} : removeScene(id) /\ UNCHANGED poll
    \/ \E id \in PresentIds, value \in Assets \cup {NoImage} :
           updateScene(id, "image", value) /\ UNCHANGED poll

EditSpec == EditInit /\ [][EditNext]_vars

--------------------------------------------------------------------------
(* The prompt builder: generateCreativePrompt *)

UPPER == "ABCDEFGHIJKLMNOPQRSTUVWXYZ"

LOWER == "abcdefghijklmnopqrstuvwxyz"

LowerChar(c) ==
    IF \E k \in 1 .. Len(UPPER) : SubSeq(UPPER, k, k) = c
    THEN LET k == CHOOSE k \in 1 .. Len(UPPER) : SubSeq(UPPER, k, k) = c
         IN  SubSeq(LOWER, k, k)
    ELSE c

\* String.prototype.toLowerCase
RECURSIVE toLowerCase(_)
toLowerCase(str) ==
    IF str = "" THEN ""
    ELSE LowerChar(SubSeq(str, 1, 1)) \o toLowerCase(SubSeq(str, 2, Len(str)))

FOOTWEAR_ACTION ==
    "Low angle shot, showing the model's legs/feet walking or dynamic movement with the shoes."

SKINCARE_ACTION ==
    "Close up portrait, model holding product near face, flawless skin texture."

FASHION_ACTION == "Medium or Full shot, model wearing the product, confident fashion pose."

BEVERAGE_ACTION == "Model holding the item ready to consume/drink, enjoying the moment."

GENERIC_ACTION == "Natural interaction with the product in a lifestyle setting."

AUTO_MODEL == "Auto-Detect based on Product"

\* pose.includes("Smart Adaptive") || pose === "Let AI Decide (Auto)"
SmartRequested(pose) == Includes(pose, "Smart Adaptive") \/ pose = "Let AI Decide (Auto)"

TYPE_ERROR == "TypeError: Cannot read properties of undefined (reading 'toLowerCase')"

\* line 76: analysisData.productCategory.toLowerCase() with productCategory
\* undefined throws; the line is reached with analysis data and a smart pose
derivedActionThrows(pose, analysisData) ==
    analysisData.present /\ SmartRequested(pose) /\ ~analysisData.hasCategory

\* lines 65-88: let derivedAction = pose; if (analysisData) { if (...) ... },
\* where line 76 does not throw
derivedAction(pose, analysisData) ==
    IF analysisData.present /\ SmartRequested(pose)
    THEN LET category == toLowerCase(analysisData.productCategory)
         IN  IF Includes(category, "shoe") \/ Includes(category, "footwear")
             THEN FOOTWEAR_ACTION
             ELSE IF Includes(category, "skincare") \/ Includes(category, "cosmetic")
             THEN SKINCARE_ACTION
             ELSE IF Includes(category, "clothing") \/ Includes(category, "fashion")
             THEN FASHION_ACTION
             ELSE IF Includes(category, "beverage") \/ Includes(category, "food")
             THEN BEVERAGE_ACTION
             ELSE GENERIC_ACTION
    ELSE pose

\* lines 64-72: let derivedModelContext = modelType; ...
derivedModelContext(modelType, analysisData) ==
    IF analysisData.present /\ modelType = AUTO_MODEL
    THEN IF analysisData.targetGender = "Masculine" THEN "Male Model"
         ELSE IF analysisData.targetGender = "Feminine" THEN "Female Model"
         ELSE "Professional Model (Neutral)"
    ELSE modelType

\* the fields interpolated into systemInstruction (lines 94, 118, 119)
systemInstruction(pose, modelType, analysisData) ==
    [category  |-> IF analysisData.present /\ analysisData.hasCategory
                      /\ analysisData.productCategory # ""
                   THEN analysisData.productCategory ELSE "General",
     modelType |-> derivedModelContext(modelType, analysisData),
     action    |-> derivedAction(pose, analysisData)]

Poses ==
    {"Smart Adaptive (Recommended)", "Let AI Decide (Auto)", "let ai decide (auto)",
     "Standing, holding the product"}

Categories ==
    {"Footwear", "Running Shoes", "Skincare", "Cosmetics", "Clothing", "Fashion Footwear",
     "Cosmetic Bag (Fashion)", "Beverage", "Food & Snacks", "Electronics", "General",
     "Apparel", "SKINCARE", ""}

Genders == {"Masculine", "Feminine", "Unisex"}

\* what analyzeProductDetails can hand over: a full result, or an object
\* without productCategory ({} of line 46, or one with the gender only)
Analyses ==
    {NoAnalysis}
    \cup {[present |-> TRUE, hasCategory |-> TRUE, productCategory |-> c, targetGender |-> g] :
             c \in Categories, g \in Genders}
    \cup {[present |-> TRUE, hasCategory |-> FALSE, productCategory |-> "", targetGender |-> g] :
             g \in Genders \cup {""}}

\* generateCreativePrompt is called: the instruction is built and
\* generateContent goes out, unless line 76 throws before that
callCreativePrompt(pose, modelType, analysisData) ==
    /\ creative.pc = "idle"
    /\ creative' =
           IF derivedActionThrows(pose, analysisData)
           THEN [pc |-> "thrown", pose |-> pose, modelType |-> modelType,
                 analysisData |-> analysisData, instruction |-> NoInstruction,
                 result |-> "", error |-> TYPE_ERROR]
           ELSE [pc |-> "awaiting", pose |-> pose, modelType |-> modelType,
                 analysisData |-> analysisData,
                 instruction |-> systemInstruction(pose, modelType, analysisData),
                 result |-> "", error |-> NULL]
    /\ UNCHANGED <<batchVars, storyVars, API_KEY, poll, calls>>

\* return response.text || "Gagal membuat prompt."
creativeResponse(text) ==
    /\ creative.pc = "awaiting"
    /\ creative' = [creative EXCEPT !.pc = "returned",
                                    !.result = OrDefault(text, "Gagal membuat prompt.")]
    /\ UNCHANGED <<batchVars, storyVars, API_KEY, poll, calls>>

\* errors with which generateContent rejects
ApiErrors == {"503: overloaded", "429: quota exceeded"}

\* await ai.models.generateContent rejects: nothing catches it, the promise
\* of generateCreativePrompt rejects with the same error
creativeThrows(error) ==
    /\ creative.pc = "awaiting"
    /\ creative' = [creative EXCEPT !.pc = "thrown", !.error = "Error: " \o error]
    /\ UNCHANGED <<batchVars, storyVars, API_KEY, poll, calls>>

PromptNext ==
    \/ \E pose \in Poses, modelType \in {AUTO_MODEL, "Female Model"}, analysisData \in Analyses :
           callCreativePrompt(pose, modelType, analysisData)
    \/ \E text \in {NULL, "", "@img2 wanita muda memegang @img1."} : creativeResponse(text)
    \/ \E error \in ApiErrors : creativeThrows(error)

PromptSpec == Init /\ [][PromptNext]_vars

BatchSpec == Init /\ [][BatchNext]_vars

\* The service function and the component share no state: every property is
\* checked under the specification of the part it is about.
Next == BatchNext \/ StoryNext

Spec == Init /\ [][Next]_vars

--------------------------------------------------------------------------
(* Properties of the batch orchestrator *)

Ceil(q, w) == (q + w - 1) \div w

\* size of the g-th group (g = 1, 2, ...) of a partition of q into windows of w
GroupSize(q, w, g) == IF g * w <= q THEN w ELSE q - (g - 1) * w

IsSettled(k) == promises[k].st \in {"fulfilled", "rejected"}

Finished == bpc \in {"returned", "thrown"}

AllItems == 0 .. (quantity - 1)

\* C1: a batch of quantity Q is dispatched in exactly ceil(Q / BATCH_SIZE)
\* consecutive groups of sizes BATCH_SIZE, ..., BATCH_SIZE, rest, and an item
\* of a group is started only when every item of every earlier group has settled.
C1_GroupsInSequence ==
    bpc # "idle" =>
        /\ Len(groups) <= Ceil(quantity, BATCH_SIZE)
        /\ \A g \in 1 .. Len(groups) : groups[g] = GroupSize(quantity, BATCH_SIZE, g)
        /\ Finished => Len(groups) = Ceil(quantity, BATCH_SIZE)
        /\ \A k \in AllItems :
              promises[k].st # "pending" =>
                  \A m \in AllItems :
                      (m \div BATCH_SIZE) < (k \div BATCH_SIZE) => IsSettled(m)

\* quantity 10: the third group of two is running, one of its calls settled
C1_Witness ==
    /\ quantity = 10
    /\ groups = <<4, 4, 2>>
    /\ promises[9].st = "fulfilled"
    /\ promises[8].st = "inflight"

InFlightCount == Cardinality({k \in DOMAIN promises : promises[k].st = "inflight"})

\* C2: at most BATCH_SIZE generation calls are started and not yet settled.
C2_WindowRespected == InFlightCount <= BATCH_SIZE

\* a full second group in flight
C2_Witness == quantity > 8 /\ i = 4 /\ InFlightCount = BATCH_SIZE

\* C3: a failing item aborts nothing: no item is dispatched twice, and when
\* the function has ended every one of the Q items was dispatched exactly once
\* and has settled, whichever items failed.
C3_FailuresAbortNothing ==
    bpc # "idle" =>
        /\ DOMAIN dispatchCount = AllItems
        /\ \A k \in AllItems : dispatchCount[k] <= 1
        /\ Finished => \A k \in AllItems : dispatchCount[k] = 1 /\ IsSettled(k)

\* the first group failed as a whole, a later item still ran and succeeded
C3_Witness ==
    /\ bpc = "returned"
    /\ quantity = 6
    /\ failedItems = {0, 1, 2, 3, 4}

\* the artifacts of the succeeded items k, k+1, ..., upto-1 in index order
RECURSIVE SucceededFrom(_, _)
SucceededFrom(k, upto) ==
    IF k >= upto THEN <<>>
    ELSE (IF k \in failedItems THEN <<>> ELSE <<DataUrl(ImageData(k))>>)
         \o SucceededFrom(k + 1, upto)

\* C4: the returned list holds exactly the artifacts of the succeeded items,
\* once each, in ascending item order, failed items omitted, for every order
\* of settlement.
C4_ReturnsSucceededInOrder ==
    bpc = "returned" => generatedUrls = SucceededFrom(0, quantity)

\* items 2 and 3 of 4 fail: the list is item 1, item 4
C4_Witness ==
    /\ bpc = "returned"
    /\ quantity = 4
    /\ failedItems = {1, 2}
    /\ generatedUrls = <<"data:image/png;base64,IMG0", "data:image/png;base64,IMG3">>

\* C5: the function throws exactly when all groups have completed and no item
\* produced an artifact; a returned list is never empty.
C5_ThrowsIffNothingProduced ==
    /\ bpc = "thrown" <=>
           /\ bpc # "idle"
           /\ \A k \in AllItems : IsSettled(k)
           /\ failedItems = AllItems
    /\ bpc = "returned" => generatedUrls # <<>> /\ failedItems # AllItems
    /\ thrown # NULL <=> bpc = "thrown"

\* all four items of a batch of four fail
C5_Witness ==
    /\ bpc = "thrown"
    /\ quantity = 4
    /\ failedItems = {0, 1, 2, 3}
    /\ thrown = "No image generated"

--------------------------------------------------------------------------
(* Properties of the scene orchestrator *)

IdsOf(ss) == [n \in DOMAIN ss |-> ss[n].id]

SceneIdsOf(videos) == [n \in DOMAIN videos |-> videos[n].sceneId]

\* the run that wrote the collection still has a call or a re-prompt pending
\* for the scene of entry n
OwnerPending(n) ==
    /\ owner \in DOMAIN runs
    /\ \E k \in DOMAIN runs[owner].tasks :
          /\ runs[owner].valid[k].id = generatedVideos[n].sceneId
          /\ runs[owner].tasks[k] \in {"veo", "reprompt"}

\* C6 (as claimed): every dispatched scene job reaches 'completed' or 'failed'
\* once its generateVeoVideo call has settled: an entry is 'generating' only
\* while its run still has the call, or the handler of its error, pending.
C6_EveryJobTerminates ==
    \A n \in DOMAIN generatedVideos :
        generatedVideos[n].status = "generating" => OwnerPending(n)

UniqueSceneIds ==
    \A m, n \in DOMAIN generatedVideos :
        generatedVideos[m].sceneId = generatedVideos[n].sceneId => m = n

\* C7 (as claimed): once an entry of a run's collection is 'completed' or
\* 'failed', no later event changes its status or its videoUrl (as long as no
\* new run replaces the collection; entries with distinct sceneIds).
C7_TerminalIsFinal ==
    [][ (owner' = owner /\ UniqueSceneIds) =>
            \A n \in DOMAIN generatedVideos :
                generatedVideos[n].status \in {"completed", "failed"} =>
                    /\ n \in DOMAIN generatedVideos'
                    /\ generatedVideos'[n] = generatedVideos[n] ]_vars

\* C8 (as claimed): a step of a run that is not the one that wrote the
\* collection (the settlement of one of its calls) changes no entry of it.
C8_EarlierRunDiscarded ==
    [][ (/\ owner' = owner
         /\ \E r \in DOMAIN runs : r # owner /\ runs'[r] # runs[r])
            => generatedVideos' = generatedVideos ]_vars

RunActive == \E r \in DOMAIN runs : runs[r].pc = "awaitAll"

\* C9 (as claimed): while a run is active the scenes state does not change.
C9_ScenesFrozen == [][ RunActive => scenes' = scenes ]_vars

\* C9 (amended): a run works on the scenes captured at its click. Its tasks
\* and the collection it wrote are those of the captured list whatever the
\* scenes state has become, the captured list never changes, and a step that
\* changes the scenes state changes neither the runs nor the collection.
C9_RunUsesSnapshot ==
    /\ [](\A r \in DOMAIN runs :
            runs[r].tasks # <<>> =>
                /\ Len(runs[r].tasks) = Len(runs[r].valid)
                /\ r = owner => SceneIdsOf(generatedVideos) = IdsOf(runs[r].valid))
    /\ [][ /\ \A r \in DOMAIN runs :
                runs'[r] # Ended => runs'[r].valid = runs[r].valid
           /\ scenes' # scenes =>
                UNCHANGED <<runs, generatedVideos, isGenerating, errorMsg, owner>> ]_vars

\* a run is active and the scenes with image are no longer those it captured
C9_Witness ==
    \E r \in DOMAIN runs :
        /\ runs[r].pc = "awaitAll"
        /\ r = owner
        /\ IdsOf(WithImage(scenes)) # IdsOf(runs[r].valid)

\* C10 (as claimed): a Generate click while no scene has an image leaves the
\* result collection, the error message and isGenerating unchanged.
C10_NoImageClickChangesNothing ==
    [][ (handleGenerate /\ WithImage(scenes) = <<>>) =>
            UNCHANGED <<generatedVideos, errorMsg, isGenerating>> ]_vars

\* C10 (amended): a run never holds a scene without image: the list captured
\* at the click is exactly the scenes that have an image, the collection a run
\* writes has one entry per captured scene and no other, and a click while no
\* scene has an image starts no run and leaves the collection and isGenerating
\* unchanged, while it resets the error message to null.
C10_ImagelessExcluded ==
    /\ [](\A r \in DOMAIN runs : \A n \in DOMAIN runs[r].valid :
            runs[r].valid[n].image # NoImage)
    /\ [][ handleGenerate =>
             IF WithImage(scenes) = <<>>
             THEN /\ UNCHANGED <<generatedVideos, isGenerating, runs, owner>>
                  /\ errorMsg' = NULL
             ELSE /\ Len(runs') = Len(runs) + 1
                  /\ aistudio => runs'[Len(runs')].valid = WithImage(scenes)
                  /\ ~aistudio => SceneIdsOf(generatedVideos') = IdsOf(WithImage(scenes)) ]_vars
    /\ [][ (owner' # owner /\ owner' \in DOMAIN runs) =>
             SceneIdsOf(generatedVideos') = IdsOf(runs[owner'].valid) ]_vars

\* two scenes, only the first with an image: the run holds one entry, for it
C10_Witness ==
    /\ Len(scenes) = 2
    /\ scenes[1].image # NoImage
    /\ scenes[2].image = NoImage
    /\ owner \in DOMAIN runs
    /\ runs[owner].pc = "awaitAll"
    /\ SceneIdsOf(generatedVideos) = <<scenes[1].id>>

\* the generateVeoVideo calls of a run that have not settled
CallsInFlight(run) == {n \in DOMAIN run.tasks : run.tasks[n] = "veo"}

\* run r passes line 79 in this step
RunStarts(r) ==
    /\ r \in DOMAIN runs'
    /\ runs'[r].pc = "awaitAll"
    /\ r \in DOMAIN runs => runs[r].pc \in {"hasKey", "openKey"}

\* C11: the step in which a run dispatches puts the calls of all the scenes
\* that had an image at the click in flight at once, whatever their number,
\* and no task of a run ever waits for another task before its call is issued.
C11_AllCallsIssuedAtOnce ==
    /\ [](\A r \in DOMAIN runs : \A n \in DOMAIN runs[r].tasks :
              runs[r].tasks[n] \in {"veo", "reprompt", "fulfilled", "rejected"})
    /\ [][\A r \in 1 .. (Len(runs) + 1) :
              RunStarts(r) =>
                  /\ Len(runs'[r].tasks) = Len(WithImage(scenes))
                  /\ CallsInFlight(runs'[r]) = 1 .. Len(WithImage(scenes))]_vars

\* five scenes with an image: five calls in flight, more than a batch window
C11_Witness ==
    \E r \in DOMAIN runs :
        /\ Len(WithImage(scenes)) = MAX_SCENES
        /\ CallsInFlight(runs[r]) = 1 .. MAX_SCENES
        /\ Len(generatedVideos) = MAX_SCENES

\* task n of run r settles in this step: its generateVeoVideo call, or the
\* re-prompt awaited in its catch block
JobSettles(r, n) ==
    \/ \E outcome \in VeoOutcomes : veoSettles(r, n, outcome)
    \/ \E resolved \in BOOLEAN : repromptSettles(r, n, resolved)

\* C12: the settlement of a job leaves the length and the order of the
\* collection unchanged and changes no entry but the slot of that job, the
\* n-th entry of the collection its run wrote; a job of another run or scene
\* never overwrites it.
C12_OnlyOwnSlotUpdated ==
    [][\A r \in DOMAIN runs : \A n \in 1 .. MAX_SCENES :
          JobSettles(r, n) =>
              /\ SceneIdsOf(generatedVideos') = SceneIdsOf(generatedVideos)
              /\ \A m \in DOMAIN generatedVideos :
                     generatedVideos'[m] # generatedVideos[m] => (r = owner /\ m = n)]_vars

\* the generateVeoVideo outcomes that carry the recognized credential error
KeyErrorOutcomes == {o \in VeoOutcomes : o.threw /\ Includes(o.message, KEY_ERROR)}

\* C13: when the call of a job fails with the credential error, the same
\* step sets the advisory message and marks the job 'failed', whatever the
\* re-prompt does afterwards, and the call of a task is never issued again.
C13_KeyErrorMarksFailed ==
    [][/\ \A r \in DOMAIN runs : \A n \in 1 .. MAX_SCENES : \A o \in KeyErrorOutcomes :
              veoSettles(r, n, o) =>
                  /\ errorMsg' = KEY_MESSAGE
                  /\ r = owner => generatedVideos'[n].status = "failed"
       /\ \A r \in DOMAIN runs : \A n \in DOMAIN runs[r].tasks :
              (runs[r].tasks[n] # "veo" /\ n \in DOMAIN runs'[r].tasks)
                  => runs'[r].tasks[n] # "veo"]_vars

\* the re-prompts of line 104 a run is waiting for
RepromptsPending(run) == {n \in DOMAIN run.tasks : run.tasks[n] = "reprompt"}

\* C14: a run invokes openSelectKey for the credential error at most once,
\* so it never waits for two re-prompts.
C14_RepromptOncePerRun ==
    \A r \in DOMAIN runs : Cardinality(RepromptsPending(runs[r])) <= 1

--------------------------------------------------------------------------
(* Properties of the video poller and of what the storyboard stores *)

\* the generateVeoVideo invocation of task n has returned the uri of a
\* finished operation
ReturnedUri(n) == poll[n].pc = "returned" /\ poll[n].operation.uri \in BackendUris

\* C15 (as claimed): the videoUrl of a completed job is the uri of the
\* finished operation, unmodified.
C15_UriUnmodified ==
    \A n \in DOMAIN poll :
        ReturnedUri(n) =>
            /\ generatedVideos[n].status = "completed"
            /\ generatedVideos[n].videoUrl = poll[n].operation.uri

\* C15 (amended): the videoUrl of a completed job is the uri of the finished
\* operation followed by "&key=" and the credential that is active when
\* generateVeoVideo returns.
C15_UriCarriesKey ==
    /\ [](\A n \in DOMAIN poll :
              ReturnedUri(n) =>
                  /\ generatedVideos[n].status = "completed"
                  /\ \E k \in DOMAIN Keys :
                         generatedVideos[n].videoUrl =
                             poll[n].operation.uri \o "&key=" \o Keys[k])
    /\ [][\A n \in DOMAIN poll :
              (poll[n].pc # "returned" /\ poll'[n].pc = "returned"
                  /\ poll'[n].operation.uri \in BackendUris)
              => generatedVideos'[n].videoUrl =
                     poll'[n].operation.uri \o "&key=" \o API_KEY]_vars

\* the credential was rotated while the operation ran: the stored url
\* carries the new one
C15_Witness ==
    \E n \in DOMAIN poll :
        /\ ReturnedUri(n)
        /\ poll[n].ai = "K1"
        /\ generatedVideos[n] =
               [sceneId |-> "1", videoUrl |-> "https://video/X&key=K2", status |-> "completed"]

\* C16: every observation of done = false is followed by one wait and then
\* one status check, a check is only issued after a wait, none is issued once
\* done = true was observed, and an operation that is done at once is never
\* checked.
C16_OneCyclePerNotDone ==
    /\ [](\A n \in DOMAIN poll :
              LET p == poll[n]
              IN  /\ p.checks <= p.waits
                  /\ p.waits = p.notDone
                  /\ p.pc = "submit" => p.waits = 0 /\ p.checks = 0
                  /\ p.pc = "wait" => p.checks + 1 = p.waits /\ ~p.operation.done
                  /\ p.pc \in {"check", "returned", "thrown"} => p.checks = p.notDone
                  /\ p.pc = "returned" => p.operation.done)
    /\ [][\A n \in DOMAIN poll :
              poll[n].operation.done =>
                  /\ poll'[n].checks = poll[n].checks
                  /\ poll'[n].waits = poll[n].waits]_vars

\* done = false, done = false, then done = true with a uri: two cycles
C16_Witness ==
    \E n \in DOMAIN poll :
        /\ poll[n].pc = "returned"
        /\ poll[n].notDone = 2
        /\ poll[n].waits = 2
        /\ poll[n].checks = 2
        /\ generatedVideos[n].status = "completed"

\* C17: an operation that is done without a uri makes generateVeoVideo
\* return null and the entry 'failed' with an empty videoUrl; a 'completed'
\* entry always has a videoUrl.
C17_NoUriIsFailure ==
    /\ generateVeoVideo(NULL) = NULL
    /\ generateVeoVideo("") = NULL
    /\ \A n \in DOMAIN poll :
           (poll[n].pc = "returned" /\ poll[n].operation.uri \notin BackendUris) =>
               /\ generatedVideos[n].status = "failed"
               /\ generatedVideos[n].videoUrl = ""
    /\ \A m \in DOMAIN generatedVideos :
           generatedVideos[m].status = "completed" =>
               generatedVideos[m].videoUrl \notin {"", NULL}

\* the operation was polled once and then reported done without a uri
C17_Witness ==
    \E n \in DOMAIN poll :
        /\ poll[n].pc = "returned"
        /\ poll[n].operation = [done |-> TRUE, uri |-> NULL]
        /\ poll[n].checks = 1
        /\ generatedVideos[n].status = "failed"
        /\ ~isGenerating

\* C18: as long as the backend has not reported done for the operation of a
\* scene (and it may never do so), the scene stays 'generating' and
\* isGenerating stays true: only the backend ends the loop.
C18_StalledJobKeepsRunActive ==
    \A n \in DOMAIN poll :
        poll[n].pc \in {"wait", "check"} =>
            /\ generatedVideos[n].status = "generating"
            /\ isGenerating

\* with a backend that finishes every operation and under fairness, a run
\* that has started ends
C18_RunEndsWhenBackendFinishes == isGenerating ~> ~isGenerating

\* an outbound call of task n goes out in this step
CallIssued(n) ==
    \/ n \notin DOMAIN poll
    \/ poll'[n].checks # poll[n].checks

\* C20: every outbound call carries the credential that is active when it is
\* issued, and so does the key attached to the returned video uri.
C20_CredentialAtCallTime ==
    [][\A n \in DOMAIN poll' :
          /\ CallIssued(n) => poll'[n].callKey = API_KEY
          /\ (n \in DOMAIN poll /\ poll[n].pc # "returned" /\ poll'[n].pc = "returned"
                 /\ poll'[n].operation.uri \in BackendUris)
             => generatedVideos'[n].videoUrl =
                    poll'[n].operation.uri \o "&key=" \o API_KEY]_vars

--------------------------------------------------------------------------
(* Properties of the analysis and script operations *)

\* the response carried a text and JSON.parse rejects it
Unparsable(text) == text \notin {NULL, ""} /\ JSONparse(text).threw

\* the fixed fallback value of an operation
Fallback(op) == IF op = "analyzeProductDetails" THEN ANALYSIS_FALLBACK ELSE Arr(<<>>)

\* C19: an operation whose response text is not JSON returns its fallback
\* value, the 'Analysis failed' record or the empty list, and does not throw.
C19_ParseErrorsRecovered ==
    \A op \in Ops :
        (calls[op].pc \in {"returned", "thrown"} /\ Unparsable(calls[op].text)) =>
            /\ calls[op].pc = "returned"
            /\ calls[op].value = Fallback(op)

--------------------------------------------------------------------------
(* Properties of the scene list and of the isGenerating flag *)

\* C21: no two scenes share an id, and no two entries of the result
\* collection have the same sceneId.
C21_JobIdsUnique ==
    /\ \A m, n \in DOMAIN scenes : scenes[m].id = scenes[n].id => m = n
    /\ \A m, n \in DOMAIN generatedVideos :
           generatedVideos[m].sceneId = generatedVideos[n].sceneId => m = n

\* C23: isGenerating is true whenever a generateVeoVideo call of a run is in
\* flight, at most one run has calls in flight, and isGenerating only
\* becomes false in a state in which no call is in flight.
C23_FlagCoversCallsInFlight ==
    /\ [](\A r \in DOMAIN runs : CallsInFlight(runs[r]) # {} => isGenerating)
    /\ [](\A r, q \in DOMAIN runs :
              (CallsInFlight(runs[r]) # {} /\ CallsInFlight(runs[q]) # {}) => r = q)
    /\ [][(isGenerating /\ ~isGenerating')
              => \A r \in DOMAIN runs' : CallsInFlight(runs'[r]) = {}]_vars

\* C24: the scene list always has between 1 and MAX_SCENES scenes; addScene
\* at MAX_SCENES scenes, removeScene at one scene and removeScene of an id
\* that no scene has leave it unchanged.
C24_SceneCountInRange ==
    /\ [](Len(scenes) >= 1 /\ Len(scenes) <= MAX_SCENES)
    /\ [][/\ \A elapsed \in 0 .. 1 :
                (addScene(elapsed) /\ Len(scenes) = MAX_SCENES) => scenes' = scenes
           /\ \A id \in PresentIds \cup {AbsentId} :
                (removeScene(id) /\ (Len(scenes) = 1 \/ id \notin PresentIds))
                    => scenes' = scenes]_vars

\* the part of C24 that does not depend on the ids: the three cases in which
\* addScene and removeScene change nothing, and the upper limit
C24_NoOpCases ==
    /\ [](Len(scenes) <= MAX_SCENES)
    /\ [][/\ \A elapsed \in 0 .. 1 :
                (addScene(elapsed) /\ Len(scenes) = MAX_SCENES) => scenes' = scenes
           /\ \A id \in PresentIds \cup {AbsentId} :
                (removeScene(id) /\ (Len(scenes) = 1 \/ id \notin PresentIds))
                    => scenes' = scenes]_vars

--------------------------------------------------------------------------
(* Properties of the prompt builder *)

\* the category classes in the order in which they are looked at, each with
\* its keywords and its default phrase
ActionClasses ==
    << [keywords |-> {"shoe", "footwear"}, phrase |-> FOOTWEAR_ACTION],
       [keywords |-> {"skincare", "cosmetic"}, phrase |-> SKINCARE_ACTION],
       [keywords |-> {"clothing", "fashion"}, phrase |-> FASHION_ACTION],
       [keywords |-> {"beverage", "food"}, phrase |-> BEVERAGE_ACTION] >>

ClassMatches(k, category) ==
    \E w \in ActionClasses[k].keywords : Includes(toLowerCase(category), w)

\* the phrase of the first class that matches, the generic phrase if none does
DefaultAction(category) ==
    IF \E k \in DOMAIN ActionClasses : ClassMatches(k, category)
    THEN LET first == CHOOSE k \in DOMAIN ActionClasses :
                          /\ ClassMatches(k, category)
                          /\ \A j \in 1 .. (k - 1) : ~ClassMatches(j, category)
         IN  ActionClasses[first].phrase
    ELSE GENERIC_ACTION

\* C22: with automatic selection requested the action of the instruction is
\* the phrase of the first matching class, the generic phrase for every
\* other category and when there is no analysis data; otherwise it is the
\* pose. Every call builds an instruction with such an action.
C22_ActionDerivedOrGeneric ==
    creative.pc # "idle" =>
        creative.instruction.action =
            IF SmartRequested(creative.pose)
            THEN IF creative.analysisData.present /\ creative.analysisData.hasCategory
                 THEN DefaultAction(creative.analysisData.productCategory)
                 ELSE GENERIC_ACTION
            ELSE creative.pose

\* C22, the part that holds: a call that gets as far as its instruction
\* carries the phrase of the first matching class (the generic phrase when
\* none matches) if automatic selection was requested with analysis data, and
\* the pose unchanged otherwise.
C22_ActionOfBuiltInstruction ==
    creative.instruction # NoInstruction =>
        creative.instruction.action =
            IF SmartRequested(creative.pose) /\ creative.analysisData.present
            THEN DefaultAction(creative.analysisData.productCategory)
            ELSE creative.pose

\* C22, the failing case: automatic selection with an analysis object that
\* has no category ends the call with a TypeError and no instruction
C22_NoCategoryThrows ==
    /\ creative.pc = "thrown"
    /\ creative.error = TYPE_ERROR
    /\ SmartRequested(creative.pose)
    /\ creative.analysisData.present

====
